---- MODULE Spec2Model ----
(***************************************************************************)
(* ParallelProcessor<T> (src/Num3/ParallelProcessor.cpp): the engine's      *)
(* dataset and thread count, and its public operations process, map,       *)
(* process_with_progress, filter, reduce and parallel_sort, each as the     *)
(* calling thread, the worker threads it starts and (for                   *)
(* process_with_progress) the monitor thread, one step per statement that   *)
(* touches shared state.  Indices are 0-based as in the source; the TLA+    *)
(* sequence element of source index j is s[j + 1].                          *)
(***************************************************************************)
EXTENDS Integers, Sequences, FiniteSets, Bags, TLC

\* ------------------------------------------------------------ bounds
MaxLen == 4          \* longest dataset
MaxVal == 2          \* largest element value
MaxThreads == 3      \* largest constructor argument
MaxPolls == 1        \* most periodic reports of one monitor
MaxSortLen == 6      \* longest dataset of the deep merge recursion
MaxCalls == 4        \* most calls made on one LogFileManager
MaxCapacity == 3     \* largest capacity of a CircularBuffer
MaxItem == 2         \* largest item pushed to a CircularBuffer

\* The element type T, as the values of its instances.  Two elements 2b and
\* 2b + 1 are different elements of the same brightness b: the ordering of
\* Pixel compares r + g + b only, so distinct elements can compare equal.
Elem == 0..MaxVal
DefaultT == 0                            \* T(), Pixel() : r(0), g(0), b(0)
Brightness(p) == p \div 2
LessEq(a, b) == Brightness(a) <= Brightness(b)      \* operator<=
Less(a, b) == Brightness(a) < Brightness(b)         \* operator<

\* The size threshold of the asynchronous dispatch, 10000 in the source,
\* scaled to the dataset lengths explored here.
ASYNC_THRESHOLD == 2

\* ------------------------------------------------------------ caller inputs
\* The functions callers pass (main's lambdas, and the spec's scenarios).
Funcs == {"brighten", "double"}
ProgressFuncs == {"brighten"}     \* main passes the brightening filter
Apply(f, x) ==
    CASE f = "brighten" -> IF x + 1 < MaxVal THEN x + 1 ELSE MaxVal
      [] f = "double" -> x * 2
      [] OTHER -> x

\* Two predicates; the second one holds of elements that differ from each
\* other, so that the order of the matches shows in the result.
Preds == {"bright", "positive"}
Holds(p, x) ==
    CASE p = "bright" -> Brightness(x) > 0
      [] p = "positive" -> x > 0
      [] OTHER -> FALSE

Combiners == {"add", "second", "sub"}
Combine(g, a, b) ==
    CASE g = "add" -> a + b
      [] g = "second" -> b
      [] g = "sub" -> a - b
      [] OTHER -> a
InitialValues == 0..1

\* ------------------------------------------------------------ state
VARIABLES
    data,             \* std::vector<T> data
    num_threads,      \* unsigned int num_threads
    threads_arg,      \* the constructor's argument `threads`
    op,               \* the public operation in progress or last returned
    func,             \* its function argument
    initial_value,    \* reduce's initial_value
    main_pc,          \* position of the calling thread
    main_i,           \* its loop variable i (spawn loop, join loop)
    threads,          \* std::vector<std::thread> threads: the workers
    result,           \* the local `result` of process / filter
    written,          \* the indices of result assigned so far
    progress,         \* std::atomic<size_t> progress
    monitor,          \* the monitor thread of process_with_progress
    reports,          \* what the monitor has printed
    output_mutex,     \* std::mutex output_mutex
    result_mutex,     \* filter's std::mutex result_mutex: its owner, 0 when free
    partial_results,  \* reduce's partial_results
    final_result,     \* reduce's final_result, as returned
    temp,             \* parallel_sort's scratch buffer
    tasks,            \* the threads running merge_sort_parallel
    data0,            \* history: the dataset when the operation was called
    lock_order,       \* history: filter's workers in the order they locked
    logFiles,         \* LogFileManager::logFiles, the stream of each name
    disk,             \* the lines of each log file on disk
    log_calls,        \* history: the calls of the manager and their results
    buffer,           \* CircularBuffer::buffer
    head,             \* CircularBuffer::head
    tail,             \* CircularBuffer::tail
    max_size,         \* CircularBuffer::max_size
    is_full,          \* CircularBuffer::is_full
    live,             \* history: the elements pushed, not popped or overwritten
    thrown,           \* whether the last call on the buffer threw
    ref               \* the element the last call on the buffer returned, or DefaultT

vars == <<data, num_threads, threads_arg, op, func, initial_value, main_pc,
          main_i, threads, result, written, progress, monitor, reports,
          output_mutex, result_mutex, partial_results, final_result, temp, tasks,
          data0, lock_order, logFiles, disk, log_calls, buffer, head, tail,
          max_size, is_full, live, thrown, ref>>

engine == <<data, num_threads, threads_arg>>
callv == <<op, func, initial_value, data0>>
progv == <<progress, monitor, reports, output_mutex>>
sortv == <<temp, tasks>>
redv == <<partial_results, final_result>>
logv == <<logFiles, disk, log_calls>>
ringv == <<buffer, head, tail, max_size, is_full, live, thrown, ref>>
num1v == <<logv, ringv>>
enginev == <<engine, callv, main_pc, main_i, threads, result, written, progv,
             result_mutex, lock_order, redv, sortv>>

\* ------------------------------------------------------------ construction
\* Ctor with the fault of taking the argument as it is.
Ctor_unchecked(arg) == arg

\* num_threads(threads == 0 ? 1 : threads), then the body's test.
Ctor(arg) ==
    LET n == IF arg = 0 THEN 1 ELSE arg
    IN  IF n = 0 THEN 4 ELSE n

NoMonitor == [pc |-> "none", shown |-> 0]

\* Every dataset over Elem of at most MaxLen elements, and one unsorted
\* dataset of each length for what does not depend on the elements' values.
Datasets == UNION {[1..n -> Elem] : n \in 0..MaxLen}
Ramp(n) == [i \in 1..n |-> (n - i) % (MaxVal + 1)]
Shapes == {Ramp(n) : n \in 0..MaxLen}

\* LogFileManager() = default: no stream; the files do not exist yet.
FileNames == {"error.log", "debug.log"}
Messages == {"message"}
LogFileManager ==
    /\ logFiles = [name \in FileNames |-> "absent"]
    /\ disk = [name \in FileNames |-> <<>>]
    /\ log_calls = <<>>

\* CircularBuffer(size_t capacity): buffer.resize(capacity), head(0), tail(0),
\* max_size(capacity), is_full(false).
Items == 1..MaxItem
CircularBuffer(c) ==
    /\ buffer = [n \in 1..c |-> DefaultT]
    /\ head = 0 /\ tail = 0
    /\ max_size = c
    /\ is_full = FALSE
    /\ live = <<>>
    /\ thrown = FALSE
    /\ ref = DefaultT

\* ParallelProcessor(const std::vector<T>& input_data, unsigned int threads)
ParallelProcessor(D) ==
    /\ data \in D
    /\ data0 = data /\ lock_order = <<>>
    /\ threads_arg \in 0..MaxThreads
    /\ num_threads = Ctor(threads_arg)
    /\ op = "none" /\ func = "none" /\ initial_value = 0
    /\ main_pc = "idle" /\ main_i = 0
    /\ threads = <<>>
    /\ result = <<>> /\ written = {}
    /\ progress = 0 /\ monitor = NoMonitor /\ reports = <<>>
    /\ output_mutex = "free" /\ result_mutex = 0
    /\ partial_results = <<>> /\ final_result = 0
    /\ temp = <<>> /\ tasks = <<>>

\* The objects of the three programs, each as constructed.
Constructed(D) ==
    /\ LogFileManager
    /\ CircularBuffer(1)
    /\ ParallelProcessor(D)

\* Datasets long enough for the merge recursion to dispatch asynchronously
\* at two levels (more than twice the threshold on both sides).
LongShapes == {Ramp(n) : n \in 0..MaxSortLen}

Init == Constructed(Shapes)
InitAll == Constructed(Datasets)
InitLong == Constructed(LongShapes)

\* ------------------------------------------------------------ partition plan
\* ChunkSize with the fault of rounding the quotient up.
ChunkSize_rounded_up(N, K) == (N + K - 1) \div K

\* size_t chunk_size = data.size() / num_threads;
ChunkSize(N, K) == N \div K
\* size_t start = i * chunk_size;
PartStart(i, N, K) == i * ChunkSize(N, K)
\* PartEnd with the fault of a last range that does not absorb the remainder.
PartEnd_no_remainder(i, N, K) == (i + 1) * ChunkSize(N, K)

\* size_t end = (i == num_threads - 1) ? data.size() : (i + 1) * chunk_size;
PartEnd(i, N, K) == IF i = K - 1 THEN N ELSE (i + 1) * ChunkSize(N, K)

Size == Len(data)          \* data.size()
Workers == 1..Len(threads)
MapOps == {"process", "map", "process_with_progress"}

\* The first statement of a worker's lambda, by operation.
FirstPc(o) ==
    CASE o \in MapOps -> "run"
      [] o = "filter" -> "scan"
      [] o = "reduce" -> "fold"
      [] o = "parallel_sort" -> "sort"

\* ------------------------------------------------------------ calls
\* The caller enters a public operation: its locals are constructed.
Call(o, f, z) ==
    /\ main_pc \in {"idle", "returned"}
    /\ op' = o /\ func' = f /\ initial_value' = z
    /\ main_pc' = "spawn" /\ main_i' = 0
    /\ threads' = <<>>
    /\ result' = IF o \in MapOps THEN [n \in 1..Size |-> DefaultT] ELSE <<>>
    /\ written' = {}
    /\ progress' = 0 /\ monitor' = NoMonitor /\ reports' = <<>>
    /\ partial_results' = IF o = "reduce" THEN [n \in 1..num_threads |-> z] ELSE <<>>
    /\ final_result' = 0
    /\ temp' = <<>> /\ tasks' = <<>>
    /\ data0' = data /\ lock_order' = <<>>
    /\ UNCHANGED <<engine, output_mutex, result_mutex, num1v>>

process_call(f) == Call("process", f, 0)
\* map(func) { return process(func); }
map_call(f) == Call("map", f, 0)
process_with_progress_call(f) == Call("process_with_progress", f, 0)
filter_call(p) == Call("filter", p, 0)
reduce_call(g, z) == Call("reduce", g, z)
parallel_sort_call == Call("parallel_sort", "none", 0)

\* threads.emplace_back(...): the spawn loop of every operation.
Spawn ==
    /\ main_pc = "spawn"
    /\ main_i < num_threads
    /\ threads' = Append(threads,
          [start |-> PartStart(main_i, Size, num_threads),
           end |-> PartEnd(main_i, Size, num_threads),
           j |-> PartStart(main_i, Size, num_threads),
           pc |-> FirstPc(op),
           local_result |-> <<>>,
           local_value |-> initial_value])
    /\ main_i' = main_i + 1
    /\ UNCHANGED <<engine, callv, main_pc, result, written, progv,
                   result_mutex, lock_order, redv, sortv, num1v>>

\* The spawn loop ends; process_with_progress creates the monitor first.
SpawnDone ==
    /\ main_pc = "spawn"
    /\ main_i = num_threads
    /\ main_pc' = IF op = "process_with_progress" THEN "spawn_monitor" ELSE "join"
    /\ main_i' = 0
    /\ UNCHANGED <<engine, callv, threads, result, written, progv,
                   result_mutex, lock_order, redv, sortv, num1v>>

\* Join with the fault of not waiting for the thread to finish.
Join_detached ==
    /\ main_pc = "join"
    /\ main_i < Len(threads)
    /\ main_i' = main_i + 1
    /\ UNCHANGED <<engine, callv, main_pc, threads, result, written, progv,
                   result_mutex, lock_order, redv, sortv, num1v>>

\* for (auto& thread : threads) thread.join();
Join ==
    /\ main_pc = "join"
    /\ main_i < Len(threads)
    /\ threads[main_i + 1].pc = "done"
    /\ main_i' = main_i + 1
    /\ UNCHANGED <<engine, callv, main_pc, threads, result, written, progv,
                   result_mutex, lock_order, redv, sortv, num1v>>

\* ------------------------------------------------------------ process / map
\* process_worker with the fault of storing the element itself, func not applied.
process_worker_copy(t) ==
    /\ op \in {"process", "map"}
    /\ threads[t].pc = "run"
    /\ LET w == threads[t] IN
         IF w.j < w.end
         THEN /\ result' = [result EXCEPT ![w.j + 1] = data[w.j + 1]]
              /\ written' = written \cup {w.j}
              /\ threads' = [threads EXCEPT ![t].j = w.j + 1]
         ELSE /\ threads' = [threads EXCEPT ![t].pc = "done"]
              /\ UNCHANGED <<result, written>>
    /\ UNCHANGED <<engine, callv, main_pc, main_i, progv, result_mutex,
                   lock_order, redv, sortv, num1v>>

\* process_worker with the fault of transforming the dataset in place.
process_worker_in_place(t) ==
    /\ op \in {"process", "map"}
    /\ threads[t].pc = "run"
    /\ LET w == threads[t] IN
         IF w.j < w.end
         THEN /\ data' = [data EXCEPT ![w.j + 1] = Apply(func, data[w.j + 1])]
              /\ result' = [result EXCEPT ![w.j + 1] = Apply(func, data[w.j + 1])]
              /\ written' = written \cup {w.j}
              /\ threads' = [threads EXCEPT ![t].j = w.j + 1]
         ELSE /\ threads' = [threads EXCEPT ![t].pc = "done"]
              /\ UNCHANGED <<data, result, written>>
    /\ UNCHANGED <<num_threads, threads_arg, callv, main_pc, main_i, progv,
                   result_mutex, lock_order, redv, sortv, num1v>>

\* for (j = start; j < end; ++j) result[j] = func(data[j]);
process_worker(t) ==
    /\ op \in {"process", "map"}
    /\ threads[t].pc = "run"
    /\ LET w == threads[t] IN
         IF w.j < w.end
         THEN /\ result' = [result EXCEPT ![w.j + 1] = Apply(func, data[w.j + 1])]
              /\ written' = written \cup {w.j}
              /\ threads' = [threads EXCEPT ![t].j = w.j + 1]
         ELSE /\ threads' = [threads EXCEPT ![t].pc = "done"]
              /\ UNCHANGED <<result, written>>
    /\ UNCHANGED <<engine, callv, main_pc, main_i, progv, result_mutex,
                   lock_order, redv, sortv, num1v>>

\* return result;
process_return ==
    /\ op \in {"process", "map"}
    /\ main_pc = "join"
    /\ main_i = Len(threads)
    /\ main_pc' = "returned"
    /\ UNCHANGED <<engine, callv, main_i, threads, result, written, progv,
                   result_mutex, lock_order, redv, sortv, num1v>>

\* ------------------------------------------------------------ process_with_progress
\* result[j] = func(data[j]);
progress_worker_write(t) ==
    /\ op = "process_with_progress"
    /\ threads[t].pc = "run"
    /\ LET w == threads[t] IN
         IF w.j < w.end
         THEN /\ result' = [result EXCEPT ![w.j + 1] = Apply(func, data[w.j + 1])]
              /\ written' = written \cup {w.j}
              /\ threads' = [threads EXCEPT ![t].pc = "inc"]
         ELSE /\ threads' = [threads EXCEPT ![t].pc = "done"]
              /\ UNCHANGED <<result, written>>
    /\ UNCHANGED <<engine, callv, main_pc, main_i, progv, result_mutex,
                   lock_order, redv, sortv, num1v>>

\* progress_worker_inc with the fault of storing the worker's own count, so
\* that the increments of the other workers are lost.
progress_worker_inc_lost(t) ==
    /\ op = "process_with_progress"
    /\ threads[t].pc = "inc"
    /\ progress' = threads[t].j - threads[t].start + 1
    /\ threads' = [threads EXCEPT ![t].pc = "run", ![t].j = threads[t].j + 1]
    /\ UNCHANGED <<engine, callv, main_pc, main_i, result, written, monitor,
                   reports, output_mutex, result_mutex, lock_order, redv,
                   sortv, num1v>>

\* progress++;  (one atomic read-modify-write), then ++j
progress_worker_inc(t) ==
    /\ op = "process_with_progress"
    /\ threads[t].pc = "inc"
    /\ progress' = progress + 1
    /\ threads' = [threads EXCEPT ![t].pc = "run", ![t].j = threads[t].j + 1]
    /\ UNCHANGED <<engine, callv, main_pc, main_i, result, written, monitor,
                   reports, output_mutex, result_mutex, lock_order, redv,
                   sortv, num1v>>

\* std::thread monitor(...)
monitor_spawn ==
    /\ main_pc = "spawn_monitor"
    /\ monitor' = [monitor EXCEPT !.pc = "loop"]
    /\ main_pc' = "join"
    /\ UNCHANGED <<engine, callv, main_i, threads, result, written, progress,
                   reports, output_mutex, result_mutex, lock_order, redv,
                   sortv, num1v>>

Periodic == {n \in 1..Len(reports) : reports[n].kind = "progress"}

\* monitor_loop with the fault of a do-while loop: the body runs once before
\* the condition is tested.
monitor_loop_do_while ==
    /\ monitor.pc = "loop"
    /\ IF progress < Size \/ reports = <<>>
       THEN /\ Cardinality(Periodic) < MaxPolls
            /\ monitor' = [monitor EXCEPT !.pc = "report"]
       ELSE monitor' = [monitor EXCEPT !.pc = "final"]
    /\ UNCHANGED <<engine, callv, main_pc, main_i, threads, result, written,
                   progress, reports, output_mutex, result_mutex, lock_order,
                   redv, sortv, num1v>>

\* monitor_loop with the fault of a loop condition that is off by one.
monitor_loop_early ==
    /\ monitor.pc = "loop"
    /\ IF progress + 1 < Size
       THEN /\ Cardinality(Periodic) < MaxPolls
            /\ monitor' = [monitor EXCEPT !.pc = "report"]
       ELSE monitor' = [monitor EXCEPT !.pc = "final"]
    /\ UNCHANGED <<engine, callv, main_pc, main_i, threads, result, written,
                   progress, reports, output_mutex, result_mutex, lock_order,
                   redv, sortv, num1v>>

\* while (progress < total_size): the monitor sleeps for as long as it
\* already printed MaxPolls periodic reports and the work is not over.
monitor_loop ==
    /\ monitor.pc = "loop"
    /\ IF progress < Size
       THEN /\ Cardinality(Periodic) < MaxPolls
            /\ monitor' = [monitor EXCEPT !.pc = "report"]
       ELSE monitor' = [monitor EXCEPT !.pc = "final"]
    /\ UNCHANGED <<engine, callv, main_pc, main_i, threads, result, written,
                   progress, reports, output_mutex, result_mutex, lock_order,
                   redv, sortv, num1v>>

\* lock_guard lock(output_mutex); cout << progress << "/" << total_size
monitor_report ==
    /\ monitor.pc = "report"
    /\ output_mutex = "free"
    /\ output_mutex' = "monitor"
    /\ monitor' = [pc |-> "percent", shown |-> progress]
    /\ UNCHANGED <<engine, callv, main_pc, main_i, threads, result, written,
                   progress, reports, result_mutex, lock_order, redv, sortv,
                   num1v>>

\* << (progress * 100 / total_size) << "%": a second load of the counter;
\* the lock is released at the end of the iteration.
monitor_percent ==
    /\ monitor.pc = "percent"
    /\ reports' = Append(reports, [kind |-> "progress", completed |-> monitor.shown,
                                   percent |-> (progress * 100) \div Size])
    /\ output_mutex' = "free"
    /\ monitor' = [pc |-> "loop", shown |-> 0]
    /\ UNCHANGED <<engine, callv, main_pc, main_i, threads, result, written,
                   progress, result_mutex, lock_order, redv, sortv, num1v>>

\* monitor_final with the fault of printing the count of the last periodic
\* report instead of loading the counter again.
monitor_final_stale ==
    /\ monitor.pc = "final"
    /\ output_mutex = "free"
    /\ reports' = Append(reports,
          [kind |-> "complete",
           completed |-> IF reports = <<>> THEN 0 ELSE reports[Len(reports)].completed,
           percent |-> 100])
    /\ monitor' = [monitor EXCEPT !.pc = "done"]
    /\ UNCHANGED <<engine, callv, main_pc, main_i, threads, result, written,
                   progress, output_mutex, result_mutex, lock_order, redv,
                   sortv, num1v>>

\* cout << "완료: " << progress << "/" << total_size << " (100%)"
monitor_final ==
    /\ monitor.pc = "final"
    /\ output_mutex = "free"
    /\ reports' = Append(reports, [kind |-> "complete", completed |-> progress,
                                   percent |-> 100])
    /\ monitor' = [monitor EXCEPT !.pc = "done"]
    /\ UNCHANGED <<engine, callv, main_pc, main_i, threads, result, written,
                   progress, output_mutex, result_mutex, lock_order, redv,
                   sortv, num1v>>

\* monitor.join(); return result;
progress_return ==
    /\ op = "process_with_progress"
    /\ main_pc = "join"
    /\ main_i = Len(threads)
    /\ monitor.pc = "done"
    /\ main_pc' = "returned"
    /\ UNCHANGED <<engine, callv, main_i, threads, result, written, progv,
                   result_mutex, lock_order, redv, sortv, num1v>>

\* ------------------------------------------------------------ filter
\* for (j = start; j < end; ++j) if (predicate(data[j])) local_result.push_back(data[j]);
\* The scan reads the dataset and writes the worker's own buffer only: it is
\* one step.
filter_worker_scan(t) ==
    /\ op = "filter"
    /\ threads[t].pc = "scan"
    /\ LET w == threads[t] IN
         threads' = [threads EXCEPT
              ![t].local_result = SelectSeq(SubSeq(data, w.start + 1, w.end),
                                            LAMBDA x : Holds(func, x)),
              ![t].j = w.end,
              ![t].pc = "lock"]
    /\ UNCHANGED <<engine, callv, main_pc, main_i, result, written, progv,
                   result_mutex, lock_order, redv, sortv, num1v>>

\* filter_worker_lock with the fault of not waiting for the holder of the
\* lock to release it.
filter_worker_lock_shared(t) ==
    /\ op = "filter"
    /\ threads[t].pc = "lock"
    /\ result_mutex' = t
    /\ lock_order' = Append(lock_order, t)
    /\ threads' = [threads EXCEPT ![t].pc = "insert"]
    /\ UNCHANGED <<engine, callv, main_pc, main_i, result, written, progv,
                   redv, sortv, num1v>>

\* std::lock_guard<std::mutex> lock(result_mutex);
filter_worker_lock(t) ==
    /\ op = "filter"
    /\ threads[t].pc = "lock"
    /\ result_mutex = 0
    /\ result_mutex' = t
    /\ lock_order' = Append(lock_order, t)
    /\ threads' = [threads EXCEPT ![t].pc = "insert"]
    /\ UNCHANGED <<engine, callv, main_pc, main_i, result, written, progv,
                   redv, sortv, num1v>>

\* filter_worker_insert with the fault of assigning the local buffer to
\* result instead of appending it.
filter_worker_insert_assign(t) ==
    /\ op = "filter"
    /\ threads[t].pc = "insert"
    /\ result' = threads[t].local_result
    /\ result_mutex' = 0
    /\ threads' = [threads EXCEPT ![t].pc = "done"]
    /\ UNCHANGED <<engine, callv, main_pc, main_i, written, progv, lock_order,
                   redv, sortv, num1v>>

\* filter_worker_insert with the fault of never releasing the lock.
filter_worker_insert_locked(t) ==
    /\ op = "filter"
    /\ threads[t].pc = "insert"
    /\ result' = result \o threads[t].local_result
    /\ threads' = [threads EXCEPT ![t].pc = "done"]
    /\ UNCHANGED <<engine, callv, main_pc, main_i, written, progv,
                   result_mutex, lock_order, redv, sortv, num1v>>

\* filter_worker_insert with the fault of inserting at the front of result.
filter_worker_insert_front(t) ==
    /\ op = "filter"
    /\ threads[t].pc = "insert"
    /\ result' = threads[t].local_result \o result
    /\ result_mutex' = 0
    /\ threads' = [threads EXCEPT ![t].pc = "done"]
    /\ UNCHANGED <<engine, callv, main_pc, main_i, written, progv, lock_order,
                   redv, sortv, num1v>>

\* result.insert(result.end(), local_result.begin(), local_result.end());
\* the lock is released as the lambda ends.
filter_worker_insert(t) ==
    /\ op = "filter"
    /\ threads[t].pc = "insert"
    /\ result' = result \o threads[t].local_result
    /\ result_mutex' = 0
    /\ threads' = [threads EXCEPT ![t].pc = "done"]
    /\ UNCHANGED <<engine, callv, main_pc, main_i, written, progv, lock_order,
                   redv, sortv, num1v>>

\* return result;
filter_return ==
    /\ op = "filter"
    /\ main_pc = "join"
    /\ main_i = Len(threads)
    /\ main_pc' = "returned"
    /\ UNCHANGED <<engine, callv, main_i, threads, result, written, progv,
                   result_mutex, lock_order, redv, sortv, num1v>>

\* ------------------------------------------------------------ reduce
\* for (const auto& partial : partial_results) final_result = func(final_result, partial);
\* and the workers' loop: a left fold of func over a sequence.
RECURSIVE FoldLeft(_, _, _)
FoldLeft(g, acc, s) ==
    IF s = <<>> THEN acc
    ELSE FoldLeft(g, Combine(g, acc, Head(s)), Tail(s))

\* T local_result = initial_value;
\* for (j = start; j < end; ++j) local_result = func(local_result, data[j]);
\* The fold reads the dataset and writes the worker's own local only: it is
\* one step.
reduce_worker_fold(t) ==
    /\ op = "reduce"
    /\ threads[t].pc = "fold"
    /\ LET w == threads[t] IN
         threads' = [threads EXCEPT
              ![t].local_value = FoldLeft(func, initial_value,
                                          SubSeq(data, w.start + 1, w.end)),
              ![t].j = w.end,
              ![t].pc = "store"]
    /\ UNCHANGED <<engine, callv, main_pc, main_i, result, written, progv,
                   result_mutex, lock_order, redv, sortv, num1v>>

\* reduce_worker_store with the fault of storing into the next free slot, in
\* the order in which the workers finish.
reduce_worker_store_next_free(t) ==
    /\ op = "reduce"
    /\ threads[t].pc = "store"
    /\ partial_results' =
          [partial_results EXCEPT
              ![Cardinality({u \in Workers : threads[u].pc = "done"}) + 1] =
                  threads[t].local_value]
    /\ threads' = [threads EXCEPT ![t].pc = "done"]
    /\ UNCHANGED <<engine, callv, main_pc, main_i, result, written, progv,
                   result_mutex, lock_order, final_result, sortv, num1v>>

\* partial_results[i] = local_result;
reduce_worker_store(t) ==
    /\ op = "reduce"
    /\ threads[t].pc = "store"
    /\ partial_results' = [partial_results EXCEPT ![t] = threads[t].local_value]
    /\ threads' = [threads EXCEPT ![t].pc = "done"]
    /\ UNCHANGED <<engine, callv, main_pc, main_i, result, written, progv,
                   result_mutex, lock_order, final_result, sortv, num1v>>

\* reduce_return with the fault of a final fold that stops one slot early.
reduce_return_short ==
    /\ op = "reduce"
    /\ main_pc = "join"
    /\ main_i = Len(threads)
    /\ final_result' = FoldLeft(func, initial_value,
                                SubSeq(partial_results, 1, Len(partial_results) - 1))
    /\ main_pc' = "returned"
    /\ UNCHANGED <<engine, callv, main_i, threads, result, written, progv,
                   result_mutex, lock_order, partial_results, sortv, num1v>>

\* T final_result = initial_value; ...; return final_result;
reduce_return ==
    /\ op = "reduce"
    /\ main_pc = "join"
    /\ main_i = Len(threads)
    /\ final_result' = FoldLeft(func, initial_value, partial_results)
    /\ main_pc' = "returned"
    /\ UNCHANGED <<engine, callv, main_i, threads, result, written, progv,
                   result_mutex, lock_order, partial_results, sortv, num1v>>

\* ------------------------------------------------------------ parallel_sort
IsPermutation(s, t) ==
    /\ Len(s) = Len(t)
    /\ \A v \in {s[n] : n \in 1..Len(s)} \cup {t[n] : n \in 1..Len(t)} :
          Cardinality({n \in 1..Len(s) : s[n] = v})
              = Cardinality({n \in 1..Len(t) : t[n] = v})

\* What std::sort(first, last) may leave in a range holding s: any order of
\* the same elements in which no element is less than an earlier one
\* (std::sort is not stable).
StdSort(s) ==
    {t \in [1..Len(s) -> {s[n] : n \in 1..Len(s)}] :
        /\ IsPermutation(s, t)
        /\ \A a, b \in 1..Len(s) : a < b => ~Less(t[b], t[a])}

\* std::sort(data.begin() + start, data.begin() + end);
sort_worker(t) ==
    /\ op = "parallel_sort"
    /\ threads[t].pc = "sort"
    /\ LET w == threads[t] IN
         \E sorted \in StdSort(SubSeq(data, w.start + 1, w.end)) :
            data' = [n \in 1..Size |->
                        IF w.start < n /\ n <= w.end THEN sorted[n - w.start]
                        ELSE data[n]]
    /\ threads' = [threads EXCEPT ![t].pc = "done"]
    /\ UNCHANGED <<num_threads, threads_arg, callv, main_pc, main_i, result,
                   written, progv, result_mutex, lock_order, redv, sortv,
                   num1v>>

\* size_t middle = start + (end - start) / 2;
Middle(start, end) == start + (end - start) \div 2

\* A call of merge_sort_parallel(start, end, temp): its position and the
\* locals i, j, k of its merge, and the future it waits on (a task index).
Frame(start, end) ==
    [start |-> start, end |-> end, pc |-> "enter",
     i |-> start, j |-> Middle(start, end), k |-> start, future |-> 0]

Tasks == 1..Len(tasks)
Running(x) == tasks[x] /= <<>>
Top(x) == tasks[x][Len(tasks[x])]
Pop(stack) == SubSeq(stack, 1, Len(stack) - 1)
SetTop(stack, fr) == [stack EXCEPT ![Len(stack)] = fr]

\* DispatchesAsync with the fault of a threshold that is off by one.
DispatchesAsync_at_threshold(start, end) ==
    end - start >= ASYNC_THRESHOLD /\ num_threads > 1

\* if (end - start > 10000 && num_threads > 1)
DispatchesAsync(start, end) == end - start > ASYNC_THRESHOLD /\ num_threads > 1

\* merge_begin with the fault of starting the merge phase before the local
\* sorts are joined.
merge_begin_unjoined ==
    /\ op = "parallel_sort"
    /\ main_pc = "join"
    /\ temp' = [n \in 1..Size |-> DefaultT]
    /\ tasks' = << <<Frame(0, Size)>> >>
    /\ main_pc' = "merge"
    /\ UNCHANGED <<engine, callv, main_i, threads, result, written, progv,
                   result_mutex, lock_order, redv, num1v>>

\* std::vector<T> temp(data.size()); merge_sort_parallel(0, data.size(), temp);
merge_begin ==
    /\ op = "parallel_sort"
    /\ main_pc = "join"
    /\ main_i = Len(threads)
    /\ temp' = [n \in 1..Size |-> DefaultT]
    /\ tasks' = << <<Frame(0, Size)>> >>
    /\ main_pc' = "merge"
    /\ UNCHANGED <<engine, callv, main_i, threads, result, written, progv,
                   result_mutex, lock_order, redv, num1v>>

\* if (end - start <= 1) return;
merge_leaf(x) ==
    /\ Running(x)
    /\ Top(x).pc = "enter"
    /\ Top(x).end - Top(x).start <= 1
    /\ tasks' = [tasks EXCEPT ![x] = Pop(tasks[x])]
    /\ UNCHANGED <<engine, callv, main_pc, main_i, threads, result, written,
                   progv, result_mutex, lock_order, redv, temp, num1v>>

\* auto future = std::async(std::launch::async, [..]{ merge_sort_parallel(start, middle, temp); });
\* merge_sort_parallel(middle, end, temp);
merge_async(x) ==
    /\ Running(x)
    /\ LET fr == Top(x) IN
         /\ fr.pc = "enter"
         /\ fr.end - fr.start > 1
         /\ DispatchesAsync(fr.start, fr.end)
         /\ tasks' = Append(
               [tasks EXCEPT ![x] =
                   Append(SetTop(tasks[x], [fr EXCEPT !.pc = "wait",
                                                      !.future = Len(tasks) + 1]),
                          Frame(Middle(fr.start, fr.end), fr.end))],
               <<Frame(fr.start, Middle(fr.start, fr.end))>>)
    /\ UNCHANGED <<engine, callv, main_pc, main_i, threads, result, written,
                   progv, result_mutex, lock_order, redv, temp, num1v>>

\* else: merge_sort_parallel(start, middle, temp);
merge_sync_left(x) ==
    /\ Running(x)
    /\ LET fr == Top(x) IN
         /\ fr.pc = "enter"
         /\ fr.end - fr.start > 1
         /\ ~DispatchesAsync(fr.start, fr.end)
         /\ tasks' = [tasks EXCEPT ![x] =
               Append(SetTop(tasks[x], [fr EXCEPT !.pc = "right"]),
                      Frame(fr.start, Middle(fr.start, fr.end)))]
    /\ UNCHANGED <<engine, callv, main_pc, main_i, threads, result, written,
                   progv, result_mutex, lock_order, redv, temp, num1v>>

\* merge_sort_parallel(middle, end, temp);  (after the left half returned)
merge_sync_right(x) ==
    /\ Running(x)
    /\ LET fr == Top(x) IN
         /\ fr.pc = "right"
         /\ tasks' = [tasks EXCEPT ![x] =
               Append(SetTop(tasks[x], [fr EXCEPT !.pc = "merge"]),
                      Frame(Middle(fr.start, fr.end), fr.end))]
    /\ UNCHANGED <<engine, callv, main_pc, main_i, threads, result, written,
                   progv, result_mutex, lock_order, redv, temp, num1v>>

\* merge_wait with the fault of not waiting for the asynchronous task.
merge_wait_missing(x) ==
    /\ Running(x)
    /\ Top(x).pc = "wait"
    /\ tasks' = [tasks EXCEPT ![x] = SetTop(tasks[x], [Top(x) EXCEPT !.pc = "merge"])]
    /\ UNCHANGED <<engine, callv, main_pc, main_i, threads, result, written,
                   progv, result_mutex, lock_order, redv, temp, num1v>>

\* future.wait();
merge_wait(x) ==
    /\ Running(x)
    /\ Top(x).pc = "wait"
    /\ ~Running(Top(x).future)
    /\ tasks' = [tasks EXCEPT ![x] = SetTop(tasks[x], [Top(x) EXCEPT !.pc = "merge"])]
    /\ UNCHANGED <<engine, callv, main_pc, main_i, threads, result, written,
                   progv, result_mutex, lock_order, redv, temp, num1v>>

\* MergeTakes with the fault of stopping when one half is used up, the two
\* loops that take the rest of the other half missing.
MergeTakes_no_rest(fr) ==
    LET middle == Middle(fr.start, fr.end) IN
    IF fr.i < middle /\ fr.j < fr.end
    THEN IF LessEq(data[fr.i + 1], data[fr.j + 1]) THEN "left" ELSE "right"
    ELSE "none"

\* MergeTakes with the fault of a strict comparison: on a tie the element of
\* the right half is taken.
MergeTakes_right_on_ties(fr) ==
    LET middle == Middle(fr.start, fr.end) IN
    IF fr.i < middle /\ fr.j < fr.end
    THEN IF Less(data[fr.i + 1], data[fr.j + 1]) THEN "left" ELSE "right"
    ELSE IF fr.i < middle THEN "left"
    ELSE IF fr.j < fr.end THEN "right"
    ELSE "none"

\* MergeTakes with the comparison of the merge loop inverted.
MergeTakes_inverted(fr) ==
    LET middle == Middle(fr.start, fr.end) IN
    IF fr.i < middle /\ fr.j < fr.end
    THEN IF LessEq(data[fr.j + 1], data[fr.i + 1]) THEN "left" ELSE "right"
    ELSE IF fr.i < middle THEN "left"
    ELSE IF fr.j < fr.end THEN "right"
    ELSE "none"

\* Which half the merge takes its next element from: "left", "right", or
\* "none" when both halves are used up (the three while loops).
MergeTakes(fr) ==
    LET middle == Middle(fr.start, fr.end) IN
    IF fr.i < middle /\ fr.j < fr.end
    THEN IF LessEq(data[fr.i + 1], data[fr.j + 1]) THEN "left" ELSE "right"
    ELSE IF fr.i < middle THEN "left"
    ELSE IF fr.j < fr.end THEN "right"
    ELSE "none"

\* temp[k++] = data[i++];  or  temp[k++] = data[j++];
merge_step(x) ==
    /\ Running(x)
    /\ LET fr == Top(x) IN
         /\ fr.pc = "merge"
         /\ CASE MergeTakes(fr) = "left" ->
                  /\ temp' = [temp EXCEPT ![fr.k + 1] = data[fr.i + 1]]
                  /\ tasks' = [tasks EXCEPT ![x] =
                        SetTop(tasks[x], [fr EXCEPT !.i = fr.i + 1, !.k = fr.k + 1])]
              [] MergeTakes(fr) = "right" ->
                  /\ temp' = [temp EXCEPT ![fr.k + 1] = data[fr.j + 1]]
                  /\ tasks' = [tasks EXCEPT ![x] =
                        SetTop(tasks[x], [fr EXCEPT !.j = fr.j + 1, !.k = fr.k + 1])]
              [] OTHER ->
                  /\ temp' = temp
                  /\ tasks' = [tasks EXCEPT ![x] =
                        SetTop(tasks[x], [fr EXCEPT !.pc = "copy", !.i = fr.start])]
    /\ UNCHANGED <<engine, callv, main_pc, main_i, threads, result, written,
                   progv, result_mutex, lock_order, redv, num1v>>

\* merge_copy with the fault of reading the scratch buffer from its first
\* slot, as if it held this range only.
merge_copy_from_zero(x) ==
    /\ Running(x)
    /\ LET fr == Top(x) IN
         /\ fr.pc = "copy"
         /\ IF fr.i < fr.end
            THEN /\ data' = [data EXCEPT ![fr.i + 1] = temp[fr.i - fr.start + 1]]
                 /\ tasks' = [tasks EXCEPT ![x] =
                       SetTop(tasks[x], [fr EXCEPT !.i = fr.i + 1])]
            ELSE /\ data' = data
                 /\ tasks' = [tasks EXCEPT ![x] = Pop(tasks[x])]
    /\ UNCHANGED <<num_threads, threads_arg, callv, main_pc, main_i, threads,
                   result, written, progv, result_mutex, lock_order, redv,
                   temp, num1v>>

\* for (size_t i = start; i < end; ++i) data[i] = temp[i];
merge_copy(x) ==
    /\ Running(x)
    /\ LET fr == Top(x) IN
         /\ fr.pc = "copy"
         /\ IF fr.i < fr.end
            THEN /\ data' = [data EXCEPT ![fr.i + 1] = temp[fr.i + 1]]
                 /\ tasks' = [tasks EXCEPT ![x] =
                       SetTop(tasks[x], [fr EXCEPT !.i = fr.i + 1])]
            ELSE /\ data' = data
                 /\ tasks' = [tasks EXCEPT ![x] = Pop(tasks[x])]
    /\ UNCHANGED <<num_threads, threads_arg, callv, main_pc, main_i, threads,
                   result, written, progv, result_mutex, lock_order, redv,
                   temp, num1v>>

\* merge_sort_parallel(0, data.size(), temp) has returned to parallel_sort.
parallel_sort_return ==
    /\ op = "parallel_sort"
    /\ main_pc = "merge"
    /\ ~Running(1)
    /\ main_pc' = "returned"
    /\ UNCHANGED <<engine, callv, main_i, threads, result, written, progv,
                   result_mutex, lock_order, redv, sortv, num1v>>

\* ------------------------------------------------------------ specification
Next ==
    \/ \E f \in Funcs : process_call(f)
    \/ \E f \in Funcs : map_call(f)
    \/ \E f \in ProgressFuncs : process_with_progress_call(f)
    \/ Spawn
    \/ SpawnDone
    \/ Join
    \/ \E t \in Workers : process_worker(t)
    \/ process_return
    \/ \E t \in Workers : progress_worker_write(t)
    \/ \E t \in Workers : progress_worker_inc(t)
    \/ monitor_spawn
    \/ monitor_loop
    \/ monitor_report
    \/ monitor_percent
    \/ monitor_final
    \/ progress_return
    \/ \E p \in Preds : filter_call(p)
    \/ \E t \in Workers : filter_worker_scan(t)
    \/ \E t \in Workers : filter_worker_lock(t)
    \/ \E t \in Workers : filter_worker_insert(t)
    \/ filter_return
    \/ \E g \in Combiners, z \in InitialValues : reduce_call(g, z)
    \/ \E t \in Workers : reduce_worker_fold(t)
    \/ \E t \in Workers : reduce_worker_store(t)
    \/ reduce_return
    \/ parallel_sort_call
    \/ \E t \in Workers : sort_worker(t)
    \/ merge_begin
    \/ \E x \in Tasks : merge_leaf(x)
    \/ \E x \in Tasks : merge_async(x)
    \/ \E x \in Tasks : merge_sync_left(x)
    \/ \E x \in Tasks : merge_sync_right(x)
    \/ \E x \in Tasks : merge_wait(x)
    \/ \E x \in Tasks : merge_step(x)
    \/ \E x \in Tasks : merge_copy(x)
    \/ parallel_sort_return

Spec == Init /\ [][Next]_vars

\* The steps of each thread: the calling thread inside an operation, worker
\* t, the monitor, and the thread of merge task x.
MainStep ==
    \/ Spawn \/ SpawnDone \/ Join \/ monitor_spawn \/ merge_begin
    \/ process_return \/ progress_return \/ filter_return \/ reduce_return
    \/ parallel_sort_return
WorkerStep(t) ==
    /\ t \in Workers
    /\ \/ process_worker(t)
       \/ progress_worker_write(t) \/ progress_worker_inc(t)
       \/ filter_worker_scan(t) \/ filter_worker_lock(t) \/ filter_worker_insert(t)
       \/ reduce_worker_fold(t) \/ reduce_worker_store(t)
       \/ sort_worker(t)
MonitorStep == monitor_loop \/ monitor_report \/ monitor_percent \/ monitor_final
TaskStep(x) ==
    /\ x \in Tasks
    /\ \/ merge_leaf(x) \/ merge_async(x) \/ merge_sync_left(x)
       \/ merge_sync_right(x) \/ merge_wait(x) \/ merge_step(x) \/ merge_copy(x)

\* Fair scheduling: a thread that can take a step eventually takes one.
\* There are at most MaxThreads workers, and fewer merge tasks than elements.
Fairness ==
    /\ WF_vars(MainStep)
    /\ \A t \in 1..MaxThreads : WF_vars(WorkerStep(t))
    /\ WF_vars(MonitorStep)
    /\ \A x \in 1..MaxLen : WF_vars(TaskStep(x))

\* The executions under fair scheduling are explored from the datasets
\* shorter than MaxLen and the thread arguments below MaxThreads.
InitFair ==
    /\ Constructed(Shapes)
    /\ Size < MaxLen
    /\ threads_arg < MaxThreads

FairSpec == InitFair /\ [][Next]_vars /\ Fairness

\* The operations apart, over every dataset of Datasets.
NextFilter ==
    \/ \E p \in Preds : filter_call(p)
    \/ Spawn
    \/ SpawnDone
    \/ Join
    \/ \E t \in Workers : filter_worker_scan(t)
    \/ \E t \in Workers : filter_worker_lock(t)
    \/ \E t \in Workers : filter_worker_insert(t)
    \/ filter_return

SpecFilter == InitAll /\ [][NextFilter]_vars

NextReduce ==
    \/ \E g \in Combiners, z \in InitialValues : reduce_call(g, z)
    \/ Spawn
    \/ SpawnDone
    \/ Join
    \/ \E t \in Workers : reduce_worker_fold(t)
    \/ \E t \in Workers : reduce_worker_store(t)
    \/ reduce_return

SpecReduce == InitAll /\ [][NextReduce]_vars

NextSort ==
    \/ parallel_sort_call
    \/ Spawn
    \/ SpawnDone
    \/ Join
    \/ \E t \in Workers : sort_worker(t)
    \/ merge_begin
    \/ \E x \in Tasks : merge_leaf(x)
    \/ \E x \in Tasks : merge_async(x)
    \/ \E x \in Tasks : merge_sync_left(x)
    \/ \E x \in Tasks : merge_sync_right(x)
    \/ \E x \in Tasks : merge_wait(x)
    \/ \E x \in Tasks : merge_step(x)
    \/ \E x \in Tasks : merge_copy(x)
    \/ parallel_sort_return

SpecSort == InitAll /\ [][NextSort]_vars

\* parallel_sort on one dataset of each length, for what depends on the
\* ranges and not on the elements' values.
SpecSortShapes == Init /\ [][NextSort]_vars

\* parallel_sort on the long datasets.
SpecSortLong == InitLong /\ [][NextSort]_vars

\* ------------------------------------------------------------ LogFileManager
\* A stream of logFiles is "good" or, after a write that failed, "failed"
\* (the error flags of a stream stay set); a name without an entry is
\* "absent".  An entry is inserted only for a stream that is open and is
\* erased when the stream is closed, so every entry's stream is open.
Called(c, name, ret) ==
    /\ Len(log_calls) < MaxCalls
    /\ log_calls' = Append(log_calls,
          [call |-> c, name |-> name, ret |-> ret,
           wrote |-> disk'[name] /= disk[name],
           changed |-> logFiles' /= logFiles \/ disk' /= disk])

\* getCurrentTimestamp() << message << std::endl
LogLine(message) == [timestamp |-> "[%Y-%m-%d %H:%M:%S] ", message |-> message]

\* bool openLogFile(filename); `opens` is whether the file system lets the
\* new stream open the file (std::ios::trunc empties it).
openLogFile(name, opens) ==
    /\ IF logFiles[name] /= "absent"
       THEN /\ UNCHANGED <<logFiles, disk>>
            /\ Called("openLogFile", name, TRUE)
       ELSE IF ~opens
       THEN /\ UNCHANGED <<logFiles, disk>>
            /\ Called("openLogFile", name, FALSE)
       ELSE /\ logFiles' = [logFiles EXCEPT ![name] = "good"]
            /\ disk' = [disk EXCEPT ![name] = <<>>]
            /\ Called("openLogFile", name, TRUE)
    /\ UNCHANGED <<enginev, ringv>>

\* writeLog with the fault of opening a file that is not open on demand.
writeLog_opens(name, message, written_ok) ==
    /\ IF logFiles[name] = "failed" \/ ~written_ok
       THEN /\ logFiles' = [logFiles EXCEPT ![name] = "failed"]
            /\ disk' = disk
            /\ Called("writeLog", name, FALSE)
       ELSE /\ logFiles' = [logFiles EXCEPT ![name] = "good"]
            /\ disk' = [disk EXCEPT ![name] = Append(@, LogLine(message))]
            /\ Called("writeLog", name, TRUE)
    /\ UNCHANGED <<enginev, ringv>>

\* bool writeLog(filename, message); `written_ok` is whether the output
\* succeeds; on a stream whose error flags are set nothing is written.
writeLog(name, message, written_ok) ==
    /\ IF logFiles[name] = "absent"
       THEN /\ UNCHANGED <<logFiles, disk>>
            /\ Called("writeLog", name, FALSE)
       ELSE IF logFiles[name] = "failed" \/ ~written_ok
       THEN /\ logFiles' = [logFiles EXCEPT ![name] = "failed"]
            /\ disk' = disk
            /\ Called("writeLog", name, FALSE)
       ELSE /\ UNCHANGED logFiles
            /\ disk' = [disk EXCEPT ![name] = Append(@, LogLine(message))]
            /\ Called("writeLog", name, TRUE)
    /\ UNCHANGED <<enginev, ringv>>

\* bool closeLogFile(filename)
closeLogFile(name) ==
    /\ IF logFiles[name] = "absent"
       THEN /\ UNCHANGED <<logFiles, disk>>
            /\ Called("closeLogFile", name, FALSE)
       ELSE /\ logFiles' = [logFiles EXCEPT ![name] = "absent"]
            /\ disk' = disk
            /\ Called("closeLogFile", name, TRUE)
    /\ UNCHANGED <<enginev, ringv>>

NextLog ==
    \/ \E name \in FileNames, opens \in BOOLEAN : openLogFile(name, opens)
    \/ \E name \in FileNames, message \in Messages, written_ok \in BOOLEAN :
          writeLog(name, message, written_ok)
    \/ \E name \in FileNames : closeLogFile(name)

\* A LogFileManager next to an engine that is never called.
InitLog ==
    /\ LogFileManager
    /\ CircularBuffer(1)
    /\ ParallelProcessor({<<>>}) /\ threads_arg = 1
SpecLog == InitLog /\ [][NextLog]_vars

\* ------------------------------------------------------------ CircularBuffer
\* size_t size() const
size ==
    IF is_full THEN max_size
    ELSE IF tail >= head THEN tail - head
    ELSE max_size - (head - tail)
\* size_t capacity() const
capacity == max_size
\* bool empty() const
empty == ~is_full /\ head = tail
\* T& front(), T& back(): what they return when the buffer is not empty
front == buffer[head + 1]
back == buffer[((tail + max_size - 1) % max_size) + 1]

\* iterator begin(), iterator end(), operator++, and the elements a loop
\* for (it = first; it != last; ++it) dereferences (iterators are equal
\* when their counts are).
begin == [index |-> head, count |-> 0]
end == [index |-> tail, count |-> size]
Increment(it) == [index |-> (it.index + 1) % max_size, count |-> it.count + 1]
RECURSIVE Visited(_, _)
Visited(first, last) ==
    IF first.count = last.count THEN <<>>
    ELSE <<buffer[first.index + 1]>> \o Visited(Increment(first), last)

\* push_back with the fault of not moving head when the buffer is full.
push_back_keeps_head(item) ==
    /\ buffer' = [buffer EXCEPT ![tail + 1] = item]
    /\ tail' = (tail + 1) % max_size
    /\ head' = head
    /\ is_full' = (is_full \/ tail' = head')
    /\ live' = IF Len(live) = max_size THEN Append(Tail(live), item)
               ELSE Append(live, item)
    /\ thrown' = FALSE
    /\ ref' = DefaultT
    /\ UNCHANGED <<enginev, logv, max_size>>

\* void push_back(const T& item); live drops its oldest element when it
\* already holds max_size elements.
push_back(item) ==
    /\ buffer' = [buffer EXCEPT ![tail + 1] = item]
    /\ tail' = (tail + 1) % max_size
    /\ head' = IF is_full THEN (head + 1) % max_size ELSE head
    /\ is_full' = (is_full \/ tail' = head')
    /\ live' = IF Len(live) = max_size THEN Append(Tail(live), item)
               ELSE Append(live, item)
    /\ thrown' = FALSE
    /\ ref' = DefaultT
    /\ UNCHANGED <<enginev, logv, max_size>>

\* pop_front with the fault of not testing empty().
pop_front_unchecked ==
    /\ head' = (head + 1) % max_size
    /\ is_full' = FALSE
    /\ live' = IF live = <<>> THEN live ELSE Tail(live)
    /\ thrown' = FALSE
    /\ ref' = DefaultT
    /\ UNCHANGED <<enginev, logv, buffer, tail, max_size>>

\* void pop_front(): throws on an empty buffer
pop_front ==
    /\ IF empty
       THEN /\ thrown' = TRUE
            /\ UNCHANGED <<head, is_full, live>>
       ELSE /\ head' = (head + 1) % max_size
            /\ is_full' = FALSE
            /\ live' = Tail(live)
            /\ thrown' = FALSE
    /\ ref' = DefaultT
    /\ UNCHANGED <<enginev, logv, buffer, tail, max_size>>

\* A call of T& front(): throws on an empty buffer, else returns buffer[head].
front_call ==
    /\ IF empty
       THEN thrown' = TRUE /\ ref' = DefaultT
       ELSE thrown' = FALSE /\ ref' = front
    /\ UNCHANGED <<enginev, logv, buffer, head, tail, max_size, is_full, live>>

\* A call of T& back(): throws on an empty buffer, else returns
\* buffer[(tail + max_size - 1) % max_size].
back_call ==
    /\ IF empty
       THEN thrown' = TRUE /\ ref' = DefaultT
       ELSE thrown' = FALSE /\ ref' = back
    /\ UNCHANGED <<enginev, logv, buffer, head, tail, max_size, is_full, live>>

NextRing ==
    \/ \E item \in Items : push_back(item)
    \/ pop_front
    \/ front_call
    \/ back_call

\* A CircularBuffer of each capacity, next to an engine that is never called.
InitRing ==
    /\ LogFileManager
    /\ \E c \in 1..MaxCapacity : CircularBuffer(c)
    /\ ParallelProcessor({<<>>}) /\ threads_arg = 1
SpecRing == InitRing /\ [][NextRing]_vars

\* ------------------------------------------------------------ properties
Returned(o) == main_pc = "returned" /\ op = o
Count(s, v) == Cardinality({n \in 1..Len(s) : s[n] = v})
AllIndices == 0..(Size - 1)

\* C1: process, map and process_with_progress return a sequence of the
\* dataset's length with result[i] = f(data[i]) at every index, whatever the
\* thread count and the interleaving of the workers.
C1_MapResult ==
    (main_pc = "returned" /\ op \in MapOps) =>
        /\ Len(result) = Size
        /\ \A n \in 1..Size : result[n] = Apply(func, data[n])

C1_Witness ==
    /\ Returned("process_with_progress")
    /\ num_threads = 3 /\ Size = 4
    /\ \E n \in 1..Size : result[n] /= data[n]

\* C2: after parallel_sort returns, every adjacent pair of the dataset is in
\* order under <=.
C2_Sorted ==
    Returned("parallel_sort") =>
        \A n \in 1..(Size - 1) : LessEq(data[n], data[n + 1])

C2_Witness ==
    /\ Returned("parallel_sort")
    /\ Size = 4 /\ num_threads = 3
    /\ Len(tasks) > 1
    /\ \E n \in 1..(Size - 1) : Less(data[n], data[n + 1])

\* C3: filter returns exactly the matching elements of the dataset, each as
\* often as the dataset holds it, and no other element.
C3_FilterMultiset ==
    Returned("filter") =>
        /\ \A v \in Elem :
              Count(result, v) = IF Holds(func, v) THEN Count(data, v) ELSE 0
        /\ \A n \in 1..Len(result) : result[n] \in Elem

C3_Witness ==
    /\ Returned("filter")
    /\ num_threads >= 2
    /\ \E v \in Elem : Count(result, v) >= 2
    /\ Len(result) < Size
    /\ \E a, b \in Workers : a /= b /\ threads[a].local_result /= <<>>
                                   /\ threads[b].local_result /= <<>>

\* The single sequential left fold of g over s starting from z.
RECURSIVE SequentialFold(_, _, _)
SequentialFold(g, z, s) ==
    IF Len(s) = 0 THEN z
    ELSE Combine(g, SequentialFold(g, z, SubSeq(s, 1, Len(s) - 1)), s[Len(s)])

RECURSIVE Sum(_)
Sum(s) == IF s = <<>> THEN 0 ELSE Head(s) + Sum(Tail(s))

\* The values the algebraic laws of a combining function are tested on.
LawValues == (0 - MaxVal)..(2 * MaxVal)
Associative(g) ==
    \A a, b, c \in LawValues :
        Combine(g, Combine(g, a, b), c) = Combine(g, a, Combine(g, b, c))
LeftIdentity(g, z) == \A x \in LawValues : Combine(g, z, x) = x

\* C4: for an associative g with left identity z, reduce(g, z) is the single
\* sequential left fold of g over the dataset from z: z on an empty dataset,
\* the arithmetic sum for addition and 0.
C4_ReduceIsFold ==
    (Returned("reduce") /\ Associative(func) /\ LeftIdentity(func, initial_value)) =>
        /\ final_result = SequentialFold(func, initial_value, data)
        /\ Size = 0 => final_result = initial_value
        /\ (func = "add" /\ initial_value = 0) => final_result = Sum(data)

C4_Witness ==
    /\ Returned("reduce")
    /\ func = "second" /\ initial_value = 1
    /\ num_threads > Size /\ Size >= 1
    /\ final_result /= initial_value

\* ---- the index ranges a thread may write
Span(a, lo, hi) == {<<a, n>> : n \in lo..(hi - 1)}

\* A worker of `threads`, from its creation to the end of its lambda: its
\* partition of result (process, process_with_progress), its slot of
\* partial_results (reduce), its partition of data (the local sort), the
\* whole result while it holds result_mutex (filter, index -1).
WorkerWrites(t) ==
    LET w == threads[t] IN
    IF w.pc = "done" THEN {}
    ELSE CASE op \in MapOps -> Span("result", w.start, w.end)
           [] op = "reduce" -> {<<"partial_results", t - 1>>}
           [] op = "parallel_sort" -> Span("data", w.start, w.end)
           [] op = "filter" -> IF result_mutex = t THEN {<<"result", -1>>} ELSE {}
           [] OTHER -> {}

\* What the next statement of worker t writes.
WorkerNextWrite(t) ==
    LET w == threads[t] IN
    CASE w.pc = "run" /\ w.j < w.end -> {<<"result", w.j>>}
      [] w.pc = "store" -> {<<"partial_results", t - 1>>}
      [] w.pc = "sort" -> Span("data", w.start, w.end)
      [] w.pc = "insert" -> {<<"result", -1>>}
      [] OTHER -> {}

\* A merge task: the range of the call it is running, which is the call above
\* its innermost call that still waits for an unfinished asynchronous task
\* (nothing when it is blocked in that wait), of both data and temp.
Pending(x) ==
    {n \in 1..Len(tasks[x]) : tasks[x][n].pc = "wait" /\ Running(tasks[x][n].future)}
ActiveFrame(x) ==
    IF Pending(x) = {} THEN 1
    ELSE 1 + CHOOSE n \in Pending(x) : \A m \in Pending(x) : m <= n
TaskWrites(x) ==
    IF ~Running(x) \/ ActiveFrame(x) > Len(tasks[x]) THEN {}
    ELSE LET fr == tasks[x][ActiveFrame(x)]
         IN  Span("data", fr.start, fr.end) \cup Span("temp", fr.start, fr.end)

TaskNextWrite(x) ==
    IF ~Running(x) THEN {}
    ELSE LET fr == Top(x) IN
         CASE fr.pc = "merge" /\ MergeTakes(fr) /= "none" -> {<<"temp", fr.k>>}
           [] fr.pc = "copy" /\ fr.i < fr.end -> {<<"data", fr.i>>}
           [] OTHER -> {}

PlanIndices(t) == threads[t].start..(threads[t].end - 1)
C6_PartitionPlan ==
    LET K == num_threads IN
    /\ Len(threads) <= K
    /\ \A t \in Workers :
          /\ threads[t].start <= threads[t].end
          /\ threads[t].start = IF t = 1 THEN 0 ELSE threads[t - 1].end
          /\ t < K => threads[t].end - threads[t].start = Size \div K
          /\ t = K => /\ threads[t].end = Size
                      /\ threads[t].end - threads[t].start
                            = Size - (K - 1) * (Size \div K)
    /\ \A a, b \in Workers : a /= b => PlanIndices(a) \cap PlanIndices(b) = {}
    /\ (op /= "none" /\ main_pc /= "spawn") =>
          /\ Len(threads) = K
          /\ UNION {PlanIndices(t) : t \in Workers} = AllIndices

C6_Witness ==
    /\ main_pc = "join"
    /\ num_threads = 3 /\ Size = 4
    /\ threads[3].end - threads[3].start = 2
    /\ threads[1].end - threads[1].start = 1

\* C7: the thread count is at least 1 in every state, a positive constructor
\* argument is kept as it is, and no operation changes the thread count.
C7_ThreadCount ==
    /\ [](num_threads >= 1 /\ (threads_arg > 0 => num_threads = threads_arg))
    /\ [][num_threads' = num_threads]_vars

C7_Witness ==
    /\ threads_arg = 0
    /\ num_threads >= 1
    /\ main_pc = "returned"

\* C8: the final ("complete") report of process_with_progress is emitted only
\* when every index of result has been written.
C8_FinalAfterWrites ==
    \A n \in 1..Len(reports) :
        reports[n].kind = "complete" => written = AllIndices

C8_Witness ==
    /\ \E n \in 1..Len(reports) : reports[n].kind = "complete"
    /\ \E n \in 1..Len(reports) :
          reports[n].kind = "progress" /\ reports[n].completed < Size
    /\ num_threads >= 2 /\ Size >= 3

\* The reports that show a completed count equal to the dataset's length.
ShowsAll == {n \in 1..Len(reports) : reports[n].completed = Size}

Finished(i) ==
    IF i < Len(threads) THEN threads[i + 1].j = threads[i + 1].end
    ELSE PartStart(i, Size, num_threads) = PartEnd(i, Size, num_threads)

\* C10: during process_with_progress the progress counter never decreases,
\* lies in 0..N, never exceeds the number of indices of result written, counts
\* every increment of every worker, and equals N exactly when every worker has
\* finished its partition.
C10_ProgressCounter ==
    /\ [](op = "process_with_progress" =>
            /\ progress \in 0..Size
            /\ progress <= Cardinality(written)
            /\ progress = Sum([t \in Workers |-> threads[t].j - threads[t].start])
            /\ (progress = Size) <=> (\A i \in 0..(num_threads - 1) : Finished(i)))
    /\ [][(op = "process_with_progress" /\ main_pc \notin {"idle", "returned"})
             => progress' >= progress]_vars

C10_Witness ==
    /\ op = "process_with_progress"
    /\ progress = Size /\ Size = 4 /\ num_threads = 3
    /\ main_pc = "join" /\ main_i = 0

\* The threads a call has started that have not run to their end: workers,
\* the monitor, and the asynchronous merge tasks (task 1 is the caller).
LiveWorkers == {t \in Workers : threads[t].pc /= "done"}
LiveMonitor == monitor.pc \notin {"none", "done"}
LiveAsyncTasks == {x \in Tasks : x > 1 /\ Running(x)}

\* C11: a public operation returns only after every thread it started has
\* completed: when the call has returned it had started one worker per
\* configured thread, every worker, the monitor of process_with_progress and
\* every asynchronous merge task has run to its end; and the calling thread
\* is past its join loop (where it reads the value it returns) only when
\* every worker has finished.
C11_ReturnsAfterThreads ==
    /\ main_pc = "returned" =>
          /\ Len(threads) = num_threads
          /\ LiveWorkers = {}
          /\ ~LiveMonitor
          /\ (op = "process_with_progress" => monitor.pc = "done")
          /\ LiveAsyncTasks = {}
    /\ main_pc = "merge" => LiveWorkers = {}
    /\ (main_pc = "join" /\ main_i = Len(threads)) => LiveWorkers = {}

C11_Witness ==
    /\ Returned("parallel_sort")
    /\ num_threads = 3 /\ Size = 4
    /\ Len(tasks) > 1

\* C12: process, process_with_progress, map, filter and reduce never write
\* the dataset: no step taken while one of them is the operation called
\* changes data, so that during and after any sequence of them the dataset
\* is, element for element, the one the operation was called on; a step
\* that changes the dataset is a step of parallel_sort.
C12_OnlySortWrites ==
    /\ [][op' /= "parallel_sort" => data' = data]_vars
    /\ [](op \notin {"none", "parallel_sort"} => data = data0)

\* process has returned on a dataset that an earlier parallel_sort changed.
C12_Witness ==
    /\ Returned("process")
    /\ Size = 4 /\ num_threads = 2
    /\ data = data0
    /\ data /= Ramp(Size)
    /\ \E n \in 1..Size : result[n] /= data[n]

\* A dataset in order under <=, and one where elements that compare equal
\* are one and the same element.
IsSorted(s) == \A n \in 1..(Len(s) - 1) : LessEq(s[n], s[n + 1])
NoTies(s) ==
    \A a, b \in 1..Len(s) :
        (LessEq(s[a], s[b]) /\ LessEq(s[b], s[a])) => s[a] = s[b]

\* C13 as stated: parallel_sort on an already sorted dataset (as the dataset
\* is after a first call) leaves exactly the same sequence, ties included.
C13_Original ==
    (Returned("parallel_sort") /\ IsSorted(data0)) => data = data0

\* C13: parallel_sort on an already sorted dataset (as the dataset is after a
\* first call) leaves a dataset that agrees with it position by position up
\* to the ordering's equivalence (the same brightness at every index, the
\* same elements overall), and exactly the same sequence when no two
\* distinct elements compare equal.
C13_IdempotentUpToTies ==
    (Returned("parallel_sort") /\ IsSorted(data0)) =>
        /\ IsPermutation(data, data0)
        /\ \A n \in 1..Size : Brightness(data[n]) = Brightness(data0[n])
        /\ NoTies(data0) => data = data0

\* A second sort that exchanged two elements of equal brightness.
C13_Witness ==
    /\ Returned("parallel_sort")
    /\ IsSorted(data0) /\ Size = 4 /\ num_threads = 2
    /\ data /= data0
    /\ Len(tasks) > 1

\* The same call on a sorted dataset without ties: nothing moved.
C13_WitnessNoTies ==
    /\ Returned("parallel_sort")
    /\ IsSorted(data0) /\ NoTies(data0) /\ Size = 4 /\ num_threads = 2
    /\ \E n \in 1..(Size - 1) : data0[n] /= data0[n + 1]

\* C20: parallel_sort only rearranges elements: when it has returned the
\* dataset is a permutation of the dataset at the call (same length, every
\* element as often as before), whatever N, K and the interleaving.
C20_SortPermutes ==
    Returned("parallel_sort") =>
        /\ Len(data) = Len(data0)
        /\ \A v \in Elem : Count(data, v) = Count(data0, v)
        /\ \A n \in 1..Size : data[n] \in Elem

C20_Witness ==
    /\ Returned("parallel_sort")
    /\ Size = 4 /\ num_threads = 3
    /\ Len(tasks) > 1
    /\ data /= data0
    /\ \A n \in 1..Size : data0[n] /= DefaultT

\* The matches of the workers of `order` that have inserted theirs, one
\* worker after the other.
RECURSIVE InsertedBy(_)
InsertedBy(order) ==
    IF order = <<>> THEN <<>>
    ELSE (IF threads[Head(order)].pc = "done"
          THEN threads[Head(order)].local_result ELSE <<>>)
         \o InsertedBy(Tail(order))

\* The matches of the dataset in dataset order.
MatchesInOrder == SelectSeq(data, LAMBDA x : Holds(func, x))

\* C14: the order of filter's result is the order in which the workers
\* acquire the lock: at every moment result holds the matches of the workers
\* that have inserted theirs, in the order they locked, and at the return
\* every worker has locked exactly once; nothing ties that order to the
\* partition index (the witness is a return with the matches of partition 1
\* before those of partition 0, a sequence other than the one in dataset
\* order that another run returns).
C14_LockOrder ==
    op = "filter" =>
        /\ result = InsertedBy(lock_order)
        /\ \A t \in Workers : Count(lock_order, t) <= 1
        /\ main_pc = "returned" =>
              {lock_order[n] : n \in 1..Len(lock_order)} = 1..num_threads

C14_Witness ==
    /\ Returned("filter")
    /\ num_threads = 2
    /\ lock_order = <<2, 1>>
    /\ threads[1].local_result /= <<>> /\ threads[2].local_result /= <<>>
    /\ result = threads[2].local_result \o threads[1].local_result
    /\ result /= MatchesInOrder
    /\ data = <<2, 0, 1, 2>>

\* The same input returned in dataset order by another run.
C14_WitnessInOrder ==
    /\ Returned("filter")
    /\ num_threads = 2 /\ func = "positive" /\ data = <<2, 0, 1, 2>>
    /\ lock_order = <<1, 2>>
    /\ result = MatchesInOrder

\* C15: the engine works with a fixed pool of the configured number of
\* threads: the threads the engine created that are running at the same time
\* (partition workers and asynchronous merge tasks; the calling thread is
\* not counted) are never more than num_threads.
C15_FixedPool ==
    Cardinality(LiveWorkers) + Cardinality(LiveAsyncTasks) <= num_threads

\* The tasks blocked in future.wait(), and the workers of filter blocked on
\* (or about to take) result_mutex.
Waiting == {x \in Tasks : Running(x) /\ Top(x).pc = "wait"}
Locking == {t \in Workers : threads[t].pc = "lock"}

Polling == monitor.pc \in {"loop", "report", "percent"}

\* C16: under fair scheduling every call of every operation eventually
\* returns; and whenever the monitor of process_with_progress is in its
\* polling loop, a worker of filter waits for the lock or a task waits on an
\* asynchronous merge task, there comes a state where the monitor has ended
\* after its final report, no worker waits for the lock and no task waits, so
\* that every single wait ends.
C16_Completion ==
    /\ (main_pc \notin {"idle", "returned"}) ~> (main_pc = "returned")
    /\ (Polling \/ Locking /= {} \/ Waiting /= {})
          ~> (/\ monitor.pc \in {"none", "done"}
              /\ op = "process_with_progress" =>
                    (monitor.pc = "done" /\ reports /= <<>>
                     /\ reports[Len(reports)].kind = "complete")
              /\ Locking = {}
              /\ Waiting = {})

C16_Witness ==
    /\ Returned("process_with_progress")
    /\ Size = 3 /\ num_threads = 2
    /\ Len(reports) = 2
    /\ reports[2].kind = "complete"

\* The monitor is inside the body of its polling loop, where the percentage
\* progress * 100 / total_size is evaluated.
InLoopBody == monitor.pc \in {"report", "percent"}

\* C17: process_with_progress never divides by zero: the monitor is inside
\* its loop body, where the percentage is computed, only in states where the
\* dataset is not empty; on an empty dataset, for every K, no periodic report
\* is ever printed, and the call returns an empty sequence after exactly one
\* report, the final one, showing 0 completed and 100%.
C17_NoDivisionByZero ==
    /\ InLoopBody => Size > 0
    /\ (op = "process_with_progress" /\ Size = 0) => Periodic = {}
    /\ (Returned("process_with_progress") /\ Size = 0) =>
          /\ result = <<>>
          /\ reports = <<[kind |-> "complete", completed |-> 0, percent |-> 100]>>

C17_Witness ==
    /\ Returned("process_with_progress")
    /\ Size = 0 /\ num_threads = 3
    /\ Len(threads) = 3
    /\ Len(reports) = 1

\* By the calls made before call n: a successful openLogFile(name) happened
\* with no closeLogFile(name) since.
OpenBefore(name, n) ==
    \E a \in 1..(n - 1) :
        /\ log_calls[a].call = "openLogFile"
        /\ log_calls[a].name = name
        /\ log_calls[a].ret
        /\ \A b \in (a + 1)..(n - 1) :
              ~(log_calls[b].call = "closeLogFile" /\ log_calls[b].name = name)

\* C18: in every sequence of openLogFile, writeLog and closeLogFile calls, a
\* writeLog(name, msg) returns true or appends to the file only if name is
\* open by the calls before it, and when it returns true it has appended a
\* line; on a name that is not open (never opened, open failed, or closed
\* since) writeLog returns false and closeLogFile returns false, and neither
\* changes the files or the manager; the names with a stream in logFiles are
\* exactly the names open by the calls made.
C18_WriteNeedsOpen ==
    /\ \A n \in 1..Len(log_calls) :
          LET c == log_calls[n] IN
            /\ (c.call = "writeLog" /\ (c.ret \/ c.wrote)) => OpenBefore(c.name, n)
            /\ (c.call = "writeLog" /\ c.ret) => c.wrote
            /\ (c.call \in {"writeLog", "closeLogFile"} /\ ~OpenBefore(c.name, n))
                  => (~c.ret /\ ~c.changed)
    /\ \A name \in FileNames :
          logFiles[name] /= "absent" <=> OpenBefore(name, Len(log_calls) + 1)

\* A failed open, then a write refused, and after a successful open a write
\* that appended a line, on the same name.
C18_Witness ==
    /\ Len(log_calls) = 4
    /\ \A n \in 1..4 : log_calls[n].name = "error.log"
    /\ log_calls[1].call = "openLogFile" /\ ~log_calls[1].ret
    /\ log_calls[2].call = "writeLog" /\ ~log_calls[2].ret
    /\ log_calls[3].call = "openLogFile" /\ log_calls[3].ret
    /\ log_calls[4].call = "writeLog" /\ log_calls[4].ret
    /\ disk["error.log"] = <<LogLine("message")>>

\* A write and a close refused after the name was closed.
C18_WitnessClosed ==
    /\ Len(log_calls) = 4
    /\ \A n \in 1..4 : log_calls[n].name = "debug.log"
    /\ log_calls[1].call = "openLogFile" /\ log_calls[1].ret
    /\ log_calls[2].call = "closeLogFile" /\ log_calls[2].ret
    /\ log_calls[3].call = "writeLog" /\ ~log_calls[3].ret
    /\ log_calls[4].call = "closeLogFile" /\ ~log_calls[4].ret

\* C19: for a CircularBuffer of capacity C >= 1, after any pushes and pops:
\* size() <= C; empty() exactly when size() = 0; the loop from begin() to
\* end() visits size() elements, which are the elements pushed and neither
\* popped nor overwritten, oldest first; front() is the first and back() the
\* last of them; and a push_back on a full buffer leaves size() = C and the
\* elements visited before without the oldest, followed by the new item.
C19_RingContents ==
    /\ [](/\ size <= capacity
          /\ empty <=> size = 0
          /\ Len(Visited(begin, end)) = size
          /\ Visited(begin, end) = live
          /\ ~empty => (front = Head(live) /\ back = live[Len(live)]))
    /\ [][\A item \in Items :
            (size = capacity /\ push_back(item)) =>
                /\ size' = capacity
                /\ Visited(begin, end)' = Append(Tail(Visited(begin, end)), item)]_vars

\* A buffer of capacity 3 that wrapped around: an old element was
\* overwritten and one was popped.
C19_Witness ==
    /\ max_size = 3
    /\ head = 2 /\ tail = 1 /\ ~is_full
    /\ live = <<1, 2>>
    /\ buffer = <<2, 2, 1>>

\* partial[i] of the statement: the left fold of g over partition i (0-based)
\* of the plan, from z.
PartialOf(i) ==
    SequentialFold(func, initial_value,
                   SubSeq(data, PartStart(i, Size, num_threads) + 1,
                          PartEnd(i, Size, num_threads)))

\* C21: for every g and z, reduce(g, z) returns the left fold of g, from z,
\* over partial[0], ..., partial[K-1] in partition index order, where
\* partial[i] is the left fold of g over partition i from z, whatever the
\* order in which the workers finish; with g = addition that is
\* sum(data) + (K + 1) * z.
C21_ReduceOfPartials ==
    Returned("reduce") =>
        /\ Len(partial_results) = num_threads
        /\ \A i \in 0..(num_threads - 1) : partial_results[i + 1] = PartialOf(i)
        /\ final_result =
              SequentialFold(func, initial_value,
                             [n \in 1..num_threads |-> PartialOf(n - 1)])
        /\ func = "add" =>
              final_result = Sum(data) + (num_threads + 1) * initial_value

\* Subtraction from z = 1 on three threads: the value is not the one of a
\* single sequential fold.
C21_Witness ==
    /\ Returned("reduce")
    /\ func = "sub" /\ initial_value = 1
    /\ num_threads = 3 /\ Size = 4
    /\ final_result /= SequentialFold(func, initial_value, data)

\* The calls of merge_sort_parallel in progress, as <<task, depth>>.
Calls == UNION {{<<x, n>> : n \in 1..Len(tasks[x])} : x \in Tasks}
CallAt(c) == tasks[c[1]][c[2]]
Innermost(c) == c[2] = Len(tasks[c[1]])

\* C22: in the merge phase a range [start, end) hands its left half to an
\* asynchronous task exactly when end - start exceeds the threshold and the
\* thread count exceeds 1: a call past its test has a future if and only if
\* that holds; every task but the caller's runs the left half of a call that
\* has such a future; and a call without one (length at most the threshold,
\* or one thread) runs both halves itself, the left one first and the right
\* one only after it, so that with one thread no task is ever created.
C22_AsyncDispatch ==
    /\ \A c \in Calls :
          LET fr == CallAt(c)
              long == fr.end - fr.start > ASYNC_THRESHOLD /\ num_threads > 1
              middle == fr.start + (fr.end - fr.start) \div 2
          IN  fr.pc /= "enter" =>
                /\ fr.end - fr.start > 1
                /\ fr.future /= 0 <=> long
                /\ fr.pc = "wait" => long
                /\ fr.pc = "right" => ~long
                /\ long =>
                      /\ fr.future \in 2..Len(tasks)
                      /\ Running(fr.future) =>
                            /\ tasks[fr.future][1].start = fr.start
                            /\ tasks[fr.future][1].end = middle
                      /\ ~Innermost(c) =>
                            /\ tasks[c[1]][c[2] + 1].start = middle
                            /\ tasks[c[1]][c[2] + 1].end = fr.end
                /\ (~long /\ ~Innermost(c)) =>
                      LET sub == tasks[c[1]][c[2] + 1] IN
                        /\ fr.pc \in {"right", "merge"}
                        /\ fr.pc = "right" =>
                              (sub.start = fr.start /\ sub.end = middle)
                        /\ fr.pc = "merge" =>
                              (sub.start = middle /\ sub.end = fr.end)
    /\ \A f \in 2..Len(tasks) :
          Running(f) =>
              \E c \in Calls : CallAt(c).pc = "wait" /\ CallAt(c).future = f
    /\ \A c, d \in Calls :
          (c /= d /\ CallAt(c).future /= 0) => CallAt(c).future /= CallAt(d).future
    /\ num_threads = 1 => Len(tasks) <= 1

\* With two threads, a range of length 4 has dispatched its left half and
\* runs its right half, of length exactly the threshold, which processes its
\* own left half itself.
C22_Witness ==
    /\ num_threads = 2 /\ Size = 4
    /\ Len(tasks) = 2
    /\ ~Running(2)
    /\ Len(tasks[1]) = 3
    /\ tasks[1][1].pc = "wait"
    /\ tasks[1][2].end - tasks[1][2].start = ASYNC_THRESHOLD
    /\ tasks[1][2].pc = "right"

\* data[lo], ..., data[hi - 1] (0-based) are in order under <=.
SortedRange(lo, hi) == \A n \in (lo + 1)..(hi - 1) : LessEq(data[n], data[n + 1])

\* The linear merge of call c is in progress: its while loops or its copy
\* back run.
Merging(c) == Innermost(c) /\ CallAt(c).pc \in {"merge", "copy"}

\* The ranges of two calls overlap.
Overlap(c, d) ==
    /\ CallAt(c).start < CallAt(d).end
    /\ CallAt(d).start < CallAt(c).end

\* C23: the phases of parallel_sort are ordered: while the merge phase runs
\* every local-sort worker has finished and has been joined; and while the
\* linear merge of a range [start, end) runs, the processing of both halves
\* is over: the task of an asynchronously dispatched left half has ended, no
\* other call in progress on the range does anything but wait for this one
\* (the calls that overlap it are below it on its own stack, or are those of
\* another thread that has a left half running in a task and has not passed
\* its future.wait()), and while the merge loops read the halves both are
\* sorted.
C23_PhaseOrder ==
    /\ (op = "parallel_sort" /\ (main_pc = "merge" \/ tasks /= <<>>)) =>
          /\ main_i = Len(threads) /\ Len(threads) = num_threads
          /\ \A t \in Workers : threads[t].pc = "done"
    /\ \A c \in Calls :
          Merging(c) =>
            LET fr == CallAt(c) IN
              /\ fr.future /= 0 => ~Running(fr.future)
              /\ \A d \in Calls :
                    (d /= c /\ Overlap(c, d)) =>
                        /\ ~Merging(d)
                        /\ CallAt(d).start <= fr.start /\ fr.end <= CallAt(d).end
                        /\ \/ d[1] = c[1] /\ d[2] < c[2]
                           \/ /\ CallAt(d).pc = "wait"
                              /\ Running(CallAt(d).future)
                              /\ c[1] /= d[1]
              /\ fr.pc = "merge" =>
                    /\ SortedRange(fr.start, Middle(fr.start, fr.end))
                    /\ SortedRange(Middle(fr.start, fr.end), fr.end)

\* The caller merges a range of four elements whose left half was sorted by
\* an asynchronous task, which has ended.
C23_Witness ==
    /\ op = "parallel_sort" /\ main_pc = "merge"
    /\ num_threads = 2 /\ Size = 4
    /\ Len(tasks) = 2 /\ ~Running(2)
    /\ Len(tasks[1]) = 1
    /\ tasks[1][1].pc = "merge" /\ tasks[1][1].future = 2
    /\ tasks[1][1].k = 2

\* The elements of s that compare equal to v, in their order in s.
TiesOf(s, v) ==
    LET Same(w) == LessEq(v, w) /\ LessEq(w, v) IN SelectSeq(s, Same)

\* m is the stable merge of l and r: sorted, with exactly their elements, and
\* of the elements that compare equal those of l first, each group in its
\* order.
IsStableMerge(m, l, r) ==
    /\ Len(m) = Len(l) + Len(r)
    /\ IsSorted(m)
    /\ \A v \in Elem : Count(m, v) = Count(l, v) + Count(r, v)
    /\ \A v \in Elem : TiesOf(m, v) = TiesOf(l, v) \o TiesOf(r, v)

\* C24: the merge step of merge_sort_parallel on the sorted halves
\* [start, middle) and [middle, end): when its loops end the scratch range
\* [start, end) is the stable merge of the two halves of the dataset (sorted,
\* exactly the elements of both, and of the elements that compare equal the
\* ones of the left half first, every group in its order), and the copy back
\* leaves that range in the dataset.
C24_StableMerge ==
    \A c \in Calls :
        (Innermost(c) /\ CallAt(c).pc = "copy") =>
            LET fr == CallAt(c)
                middle == Middle(fr.start, fr.end)
            IN  /\ IsSorted(SubSeq(temp, fr.start + 1, fr.end))
                /\ SubSeq(data, fr.start + 1, fr.i) = SubSeq(temp, fr.start + 1, fr.i)
                /\ fr.i = fr.start =>
                      /\ IsSorted(SubSeq(data, fr.start + 1, middle))
                      /\ IsSorted(SubSeq(data, middle + 1, fr.end))
                      /\ IsStableMerge(SubSeq(temp, fr.start + 1, fr.end),
                                       SubSeq(data, fr.start + 1, middle),
                                       SubSeq(data, middle + 1, fr.end))

\* A merge of three elements or more has ended and nothing is copied back
\* yet; the last element of the left half and the first of the right half
\* compare equal and are different elements.
C24_Witness ==
    \E c \in Calls :
        LET fr == CallAt(c)
            middle == Middle(fr.start, fr.end)
        IN  /\ Innermost(c) /\ fr.pc = "copy" /\ fr.i = fr.start
            /\ fr.end - fr.start >= 3
            /\ LessEq(data[middle], data[middle + 1])
            /\ LessEq(data[middle + 1], data[middle])
            /\ data[middle] /= data[middle + 1]

\* The matches of worker t's partition, in dataset order.
PartMatches(t) ==
    SelectSeq(SubSeq(data, threads[t].start + 1, threads[t].end),
              LAMBDA x : Holds(func, x))

\* The blocks of matches of the partitions of `order`, one after the other.
RECURSIVE Blocks(_)
Blocks(order) ==
    IF order = <<>> THEN <<>>
    ELSE PartMatches(Head(order)) \o Blocks(Tail(order))

\* The workers of filter that hold result_mutex.
Holders == {t \in Workers : threads[t].pc = "insert"}

\* C25: in filter at most one worker holds the result lock at any time, and
\* a worker that has not inserted yet has none of its matches in result; a
\* step of a call changes result only as the insertion of the one holder of
\* the lock, whose scan is over: it appends the matches of the holder's
\* partition, in dataset order, and ends the worker, which never runs again
\* (each worker writes exactly once); so the returned sequence is made of one
\* block per partition, each the matches of the partition in dataset order,
\* the blocks not interleaved, and with K = 1 it is in dataset order.
C25_ExclusiveInsert ==
    /\ [](op = "filter" =>
            /\ Cardinality(Holders) <= 1
            /\ \A t \in Workers : (result_mutex = t) <=> (t \in Holders)
            /\ result_mutex /= 0 => result_mutex \in Workers
            /\ (\A t \in Workers : threads[t].pc /= "done") => result = <<>>
            /\ main_pc = "returned" =>
                  /\ Len(lock_order) = num_threads
                  /\ \A t \in Workers : Count(lock_order, t) = 1
                  /\ result = Blocks(lock_order)
                  /\ num_threads = 1 => result = MatchesInOrder)
    /\ [][(op = "filter" /\ main_pc \notin {"idle", "returned"}) =>
            /\ \A t \in Workers :
                  threads[t].pc = "done" =>
                      (t \in DOMAIN threads' /\ threads'[t].pc = "done")
            /\ result' /= result =>
                  \E t \in Holders :
                      /\ result_mutex = t
                      /\ threads[t].j = threads[t].end
                      /\ threads[t].local_result = PartMatches(t)
                      /\ result' = result \o PartMatches(t)
                      /\ threads'[t].pc = "done"
                      /\ result_mutex' = 0
                      /\ \A u \in Workers \ {t} : threads'[u] = threads[u]]_vars

\* Worker 2 holds the lock and is about to insert its matches behind those
\* of worker 3, while worker 1 has finished its scan and waits for the lock.
C25_Witness ==
    /\ op = "filter" /\ main_pc = "join"
    /\ num_threads = 3
    /\ result_mutex = 2 /\ threads[2].pc = "insert"
    /\ threads[1].pc = "lock" /\ threads[1].local_result /= <<>>
    /\ threads[3].pc = "done"
    /\ result = threads[3].local_result /\ Len(result) >= 2
    /\ threads[2].local_result /= <<>>

\* The number of elements of worker t's partition.
PartLen(t) == threads[t].end - threads[t].start

\* C26 as stated: the lengths of any two partitions of the plan differ by at
\* most one element, and no worker is assigned more than ceil(N/K) elements.
C26_Original ==
    Len(threads) = num_threads =>
        /\ \A a, b \in Workers : PartLen(a) - PartLen(b) <= 1
        /\ \A t \in Workers :
              PartLen(t) <= (Size + num_threads - 1) \div num_threads

\* C26: the plan gives every partition but the last the same length
\* floor(N/K) and the last one floor(N/K) + N mod K, the largest: two
\* lengths differ by N mod K at most, which is at most K - 1; the plan is
\* balanced within one element, and within ceil(N/K), exactly when K = 1 or
\* N mod K <= 1; and when N < K the last worker has all N elements.
C26_LastAbsorbsRemainder ==
    Len(threads) = num_threads =>
        LET K == num_threads
            q == Size \div K
            r == Size % K
        IN  /\ \A a, b \in Workers : (a < K /\ b < K) => PartLen(a) = PartLen(b)
            /\ PartLen(K) = q + r
            /\ \A a, b \in Workers :
                  PartLen(a) - PartLen(b) <= r /\ r <= K - 1
            /\ K > 1 => PartLen(K) - PartLen(1) = r
            /\ (\A a, b \in Workers : PartLen(a) - PartLen(b) <= 1)
                  <=> (K = 1 \/ r <= 1)
            /\ (PartLen(K) <= (Size + K - 1) \div K) <=> (K = 1 \/ r <= 1)
            /\ Size < K => (PartLen(K) = Size
                            /\ \A t \in Workers : t < K => PartLen(t) = 0)

\* Three workers for two elements: the first two have nothing, the last has
\* both.
C26_Witness ==
    /\ op = "process" /\ main_pc = "join"
    /\ num_threads = 3 /\ Size = 2 /\ Len(threads) = 3
    /\ PartLen(1) = 0 /\ PartLen(2) = 0 /\ PartLen(3) = 2

\* C27: an engine constructed with the thread count argument 0 (hardware
\* threads not detected) has the thread count 4, from its construction on.
C27_DefaultIsFour == threads_arg = 0 => num_threads = 4

\* C28: every periodic report of process_with_progress is consistent and
\* the reports are ordered: the percentage of a periodic report is
\* floor(100 * c / N) for the completed count c of the same report, c <= N,
\* and the completed counts of successive reports never decrease.
C28_ConsistentReports ==
    /\ \A n \in Periodic :
          /\ reports[n].completed <= Size
          /\ reports[n].percent = (100 * reports[n].completed) \div Size
    /\ \A m, n \in 1..Len(reports) :
          m < n => reports[m].completed <= reports[n].completed

\* The fields of the buffer and the elements it holds.
ringState == <<buffer, head, tail, max_size, is_full, live>>

\* C29: on an empty CircularBuffer, reached by whatever pushes and pops, the
\* calls pop_front(), front() and back() throw and leave head, tail, the full
\* flag and the contents as they are: every step from an empty buffer is
\* either such a throwing call, or a push_back that behaves as on a fresh
\* empty buffer with the same head: the item is stored at head, head stays,
\* tail is the slot after head, the buffer is full exactly when its capacity
\* is 1, and it holds the item alone, which is front() and back(); and a
\* call has thrown only on an empty buffer and has returned no element.
C29_EmptyThrows ==
    /\ [](thrown => (empty /\ size = 0 /\ live = <<>> /\ ref = DefaultT))
    /\ [][empty =>
            \/ thrown' /\ ref' = DefaultT /\ UNCHANGED ringState
            \/ /\ ~thrown'
               /\ \E item \in Items :
                     /\ buffer' = [buffer EXCEPT ![head + 1] = item]
                     /\ live' = <<item>>
                     /\ front' = item /\ back' = item
                     /\ Visited(begin, end)' = <<item>>
               /\ head' = head
               /\ tail' = (head + 1) % max_size
               /\ max_size' = max_size
               /\ is_full' = (max_size = 1)
               /\ size' = 1 /\ ~empty']_vars

\* A buffer of capacity 3 that was filled, wrapped around and was emptied
\* by pops: a call on it has thrown, head and tail are at slot 1 and every
\* slot still has an old item.
C29_Witness ==
    /\ max_size = 3
    /\ thrown /\ empty
    /\ head = 1 /\ tail = 1
    /\ \A n \in 1..3 : buffer[n] \in Items
====
